---- MODULE Spec2Model ----
(***************************************************************************)
(* A model of the slackbot session: Start (handshake + dial), the receive  *)
(* loop (listen), per-frame dispatch (handleEvent and the invoke methods), *)
(* the heartbeat loop (sendPings), Disconnect, SendMessage, and the        *)
(* embedding application receiving from the unbuffered channels Done and   *)
(* CallbackErrors.                                                         *)
(*                                                                         *)
(* Go receivers matter here: Disconnect and SendMessage are declared on    *)
(* the value type SlackBot, so each call works on a private copy of the    *)
(* struct taken at call time; listen, handleEvent, sendPings and Start are *)
(* declared on *SlackBot and work on the shared struct.                    *)
(***************************************************************************)
EXTENDS Integers, Sequences, FiniteSets, TLC

\* ---------------------------------------------------------------- bounds
NumCallers == 2      \* external goroutines that call bot.Disconnect()
NumSenders == 2      \* goroutines that call bot.SendMessage()
MaxFrames  == 2      \* inbound frames the peer delivers before it stops
MaxPing    == 4      \* the heartbeat loop stops ticking at this ping id
MaxEnv     == 2      \* operations of the environment on one session: external
                     \* Disconnect calls + SendMessage calls + frames delivered
MaxEarly   == 1      \* calls the application makes on a session not connected

\* ---------------------------------------------------------------- program constants
StatusOK      == 200   \* resp.StatusCode != 200
PingThreshold == 2     \* bot.lastPing-bot.lastPong > 2

ListenCaller == -1     \* the Disconnect call made by listen
PingCaller   == 0      \* the Disconnect call made by sendPings
ExtCallers   == 1..NumCallers
Callers      == {ListenCaller, PingCaller} \cup ExtCallers
Senders      == 1..NumSenders

VARIABLES
    phase,       \* "new" | "handshake_failed" | "dial_failed" | "dial_panicked" | "connected"
    crashed,     \* an unrecovered panic of a call on a nil connection has ended the process
    handshake,   \* the response the rtm.connect request of Start got
    dialEnv,     \* what dial met: the session URL and the outcome of each of its steps
    startErr,    \* the error Start returned ("nil" when none)
    dialCalls,   \* number of websocket.Dial calls made
    handlers,    \* the callback slots the application has set (non-nil)
    bot,         \* the shared struct: messageID, lastPing, lastPong, disconnected, id
    wsOpen,      \* the connection bot.ws is open
    closeCalls,  \* number of bot.ws.Close() calls made
    doneCount,   \* number of values the application received from bot.Done
    cbErrCount,  \* number of errors the application received from bot.CallbackErrors
    lpc,         \* listen: "off" | "recv" | "disconnect"
    dws,         \* per Disconnect call: the ws handle of its copy of the receiver
    sws,         \* per SendMessage call: the ws handle of its copy of the receiver
    lerr,        \* listen: the error its last Receive returned ("nil" | "io" | "json")
    hpc,         \* sendPings: "off" | "tick" | "disconnect"
    dpc,         \* per Disconnect call: "idle" | "send" | "close" | "ret"
    dret,        \* per Disconnect call: what it returned
    units,       \* the dispatch goroutines, in the order their frames were received
    spc,         \* per SendMessage call: "idle" | "added" | "ret"
    scopy,       \* per SendMessage call: messageID of its private copy of the struct
    sargs,       \* per SendMessage call: its arguments (channel, message)
    sret,        \* per SendMessage call: what it returned
    sent,        \* the message frames written to the connection, in write order
    pings        \* the ping frames sendPings passed to JSON.Send, in order

vars == <<phase, crashed, handshake, dialEnv, startErr, dialCalls, handlers, bot, wsOpen, closeCalls, doneCount,
          cbErrCount, lpc, lerr, hpc, dpc, dret, dws, units, spc, scopy, sargs, sret, sws, sent, pings>>

\* ---------------------------------------------------------------- handshake
ServerErrors == {"invalid_auth", "account_inactive"}

\* What http.Get, ioutil.ReadAll and json.Unmarshal can produce for rtm.connect.
Bodies == {[valid |-> FALSE, ok |-> FALSE, error |-> ""]}
          \cup {[valid |-> TRUE, ok |-> FALSE, error |-> e] : e \in ServerErrors}
          \cup {[valid |-> TRUE, ok |-> TRUE, error |-> ""]}

Responses == [reqOK : BOOLEAN, status : {StatusOK, 500}, readOK : BOOLEAN, body : Bodies]

NoResponse == [reqOK |-> FALSE, status |-> 0, readOK |-> FALSE,
               body |-> [valid |-> FALSE, ok |-> FALSE, error |-> ""]]

NoError == [kind |-> "nil", text |-> ""]

getConnectionInformationNoOkCheck(r) ==
    IF ~r.reqOK THEN [kind |-> "http", text |-> ""]
    ELSE IF r.status # StatusOK THEN [kind |-> "status", text |-> ""]
    ELSE IF ~r.readOK THEN [kind |-> "read", text |-> ""]
    ELSE IF ~r.body.valid THEN [kind |-> "json", text |-> ""]
    ELSE NoError

\* The error getConnectionInformation returns for response r.
getConnectionInformation(r) ==
    IF ~r.reqOK THEN [kind |-> "http", text |-> ""]
    ELSE IF r.status # StatusOK THEN [kind |-> "status", text |-> ""]
    ELSE IF ~r.readOK THEN [kind |-> "read", text |-> ""]
    ELSE IF ~r.body.valid THEN [kind |-> "json", text |-> ""]
    ELSE IF ~r.body.ok THEN [kind |-> "slack", text |-> r.body.error]
    ELSE NoError

\* What dial can meet: whether the session URL has the form ...//host/..., and
\* the outcome of net.LookupHost, websocket.NewConfig, the connect and the
\* certificate check of websocket.DialConfig.
Dials == [hasHost : BOOLEAN, resolveOK : BOOLEAN, configOK : BOOLEAN,
          connectOK : BOOLEAN, certOK : BOOLEAN]

NoDial == [hasHost |-> FALSE, resolveOK |-> FALSE, configOK |-> FALSE,
           connectOK |-> FALSE, certOK |-> FALSE]

\* ---------------------------------------------------------------- events
Slots == {"OnDndUpdatedUser", "OnHello", "OnMessage", "OnPresenceChange"}

eventTypeByEventHelloAsPong ==
    [t \in {"dnd_updated_user", "hello", "message", "pong", "presence_change"} |->
        CASE t = "dnd_updated_user" -> "DndUpdatedUser"
          [] t = "hello"            -> "pongMessage"
          [] t = "message"          -> "MessageIn"
          [] t = "pong"             -> "pongMessage"
          [] t = "presence_change"  -> "PresenceChange"]

\* The map literal of makeEventByType: type tag -> event variant.
eventTypeByEvent ==
    [t \in {"dnd_updated_user", "hello", "message", "pong", "presence_change"} |->
        CASE t = "dnd_updated_user" -> "DndUpdatedUser"
          [] t = "hello"            -> "Hello"
          [] t = "message"          -> "MessageIn"
          [] t = "pong"             -> "pongMessage"
          [] t = "presence_change"  -> "PresenceChange"]

RegisteredTags == DOMAIN eventTypeByEvent

\* Tags the peer may send: the registered ones, an unregistered one, and a
\* frame without a type field (typeOnlyEvent.Type stays "").
Tags == RegisteredTags \cup {"user_typing", ""}

makeEventByTypeDefaultHello(eventType) ==
    IF eventType \in DOMAIN eventTypeByEvent
    THEN [event |-> eventTypeByEvent[eventType], exists |-> TRUE]
    ELSE [event |-> "Hello", exists |-> TRUE]

makeEventByType(eventType) ==
    IF eventType \in DOMAIN eventTypeByEvent
    THEN [event |-> eventTypeByEvent[eventType], exists |-> TRUE]
    ELSE [event |-> "nil", exists |-> FALSE]

\* The callback slot an event variant's invoke method reads.
SlotOf(variant) ==
    CASE variant = "DndUpdatedUser" -> "OnDndUpdatedUser"
      [] variant = "Hello"          -> "OnHello"
      [] variant = "MessageIn"      -> "OnMessage"
      [] variant = "PresenceChange" -> "OnPresenceChange"

MessageInCallsIgnoringHidden(f) == "OnMessage" \in handlers

\* MessageIn.invoke: the condition under which bot.OnMessage is called.
MessageInCalls(f) == "OnMessage" \in handlers /\ ~f.hidden

PlainCallsWithoutNilCheck(variant) == TRUE

\* invoke of the other handler-carrying variants: called iff the slot is set.
PlainCalls(variant) == SlotOf(variant) \in handlers

\* Frames the peer can deliver now. hidden only matters on a message frame and
\* reply_to only on a pong; the peer acknowledges pings that were issued.
Frames ==
    {[tag |-> t, hidden |-> FALSE, reply_to |-> 0] : t \in Tags \ {"pong"}}
    \cup {[tag |-> "message", hidden |-> TRUE, reply_to |-> 0]}
    \cup {[tag |-> "pong", hidden |-> FALSE, reply_to |-> n] : n \in 1..bot.lastPing}

\* The operations the environment has begun so far (a frame that is not valid
\* JSON counts as a frame delivered). Callers and senders are anonymous
\* goroutines, numbered in the order in which they make their call.
EnvOps == Cardinality({c \in ExtCallers : dpc[c] # "idle"})
          + Cardinality({s \in Senders : spc[s] # "idle"})
          + Len(units)
          + (IF lerr = "json" THEN 1 ELSE 0)

IsBlocked(u) == u.pc \in {"inHandler", "postErr"}
BlockedUnits == {i \in 1..Len(units) : IsBlocked(units[i])}

\* The arguments (channel, message) the application calls SendMessage with.
Messages == {[channel |-> "C1", message |-> "hi"], [channel |-> "C2", message |-> "yo"]}

NoArgs == [channel |-> "", message |-> ""]

\* The callbacks the application has set before Start. A dispatch reads the
\* slot of its own variant only and a session dispatches at most two frames:
\* the family has, for every two slots, every combination of set and nil.
HandlerSets ==
    {S \in SUBSET Slots : Cardinality(S) \in {0, 3, 4} \/ S = {"OnMessage"}}

\* ---------------------------------------------------------------- Init
Init ==
    /\ phase = "new"
    /\ crashed = FALSE
    /\ handshake = NoResponse
    /\ dialEnv = NoDial
    /\ startErr = NoError
    /\ dialCalls = 0
    /\ handlers \in HandlerSets
    /\ bot = [messageID |-> 0, lastPing |-> 0, lastPong |-> 0, disconnected |-> FALSE,
              id |-> ""]
    /\ wsOpen = FALSE
    /\ closeCalls = 0
    /\ doneCount = 0
    /\ cbErrCount = 0
    /\ lpc = "off"
    /\ lerr = "nil"
    /\ hpc = "off"
    /\ dpc = [c \in Callers |-> "idle"]
    /\ dret = [c \in Callers |-> "none"]
    /\ dws = [c \in Callers |-> "none"]
    /\ sws = [s \in Senders |-> "none"]
    /\ units = <<>>
    /\ spc = [s \in Senders |-> "idle"]
    /\ scopy = [s \in Senders |-> 0]
    /\ sargs = [s \in Senders |-> NoArgs]
    /\ sret = [s \in Senders |-> "none"]
    /\ sent = <<>>
    /\ pings = <<>>

\* ---------------------------------------------------------------- Start
\* dial(url): "nil", the kind of the error returned, or "panic".
\* FindStringSubmatch(url)[1] indexes a nil slice when the URL does not match,
\* and the error of NewConfig is overwritten unread, so that config.TlsConfig
\* is assigned through a nil *Config when NewConfig failed.
dial(d) ==
    IF ~d.hasHost THEN "panic"
    ELSE IF ~d.resolveOK THEN "resolve"
    ELSE IF ~d.configOK THEN "panic"
    ELSE IF ~d.connectOK THEN "connect"
    ELSE IF ~d.certOK THEN "cert"
    ELSE "nil"

\* The phases in which the application can call Disconnect and SendMessage:
\* before Start, after Start returned an error, and on the connected session.
AppPhases == {"new", "handshake_failed", "dial_failed", "connected"}

\* The calls made so far on a session that was not connected, and whether the
\* application may make one now.
EarlyOps == Cardinality({c \in ExtCallers : dws[c] = "nil"})
            + Cardinality({s \in Senders : sws[s] = "nil"})

AppMayCall == phase \in AppPhases /\ (phase # "connected" => EarlyOps < MaxEarly)

\* bot.ws as a call's copy of the receiver gets it: nil until Start has stored
\* the connection that the dial returned.
wsHandle == IF phase = "connected" THEN "conn" ELSE "nil"

\* An unrecovered panic ends the process: Start's (in dial) or that of a call
\* on a nil connection.
Crashed == crashed \/ phase = "dial_panicked"

\* Start(token): handshake, then dial, then spawn listen and sendPings. The
\* application calls it from the goroutine of its earlier calls, so after they
\* have returned: a call made before it never returns.
Start(r, d) ==
    /\ phase = "new"
    /\ ~Crashed
    /\ EarlyOps = 0
    /\ handshake' = r
    /\ LET err == getConnectionInformation(r) IN
       IF err # NoError
       THEN /\ phase' = "handshake_failed"
            /\ startErr' = err
            /\ d = NoDial
            /\ UNCHANGED <<dialEnv, dialCalls, bot, wsOpen, lpc, hpc>>
       ELSE /\ bot' = [bot EXCEPT !.id = "self"]
            /\ dialCalls' = dialCalls + 1
            /\ dialEnv' = d
            /\ CASE dial(d) = "panic" ->
                      /\ phase' = "dial_panicked"
                      /\ UNCHANGED <<startErr, wsOpen, lpc, hpc>>
                 [] dial(d) = "nil" ->
                      /\ phase' = "connected"
                      /\ startErr' = NoError
                      /\ wsOpen' = TRUE
                      /\ lpc' = "recv"
                      /\ hpc' = "tick"
                 [] OTHER ->
                      /\ phase' = "dial_failed"
                      /\ startErr' = [kind |-> dial(d), text |-> ""]
                      /\ UNCHANGED <<wsOpen, lpc, hpc>>
    /\ UNCHANGED <<handlers, closeCalls, doneCount, cbErrCount, dpc, dret, units,
                   spc, scopy, sargs, sret, sent, pings, lerr, dws, sws, crashed>>

\* ---------------------------------------------------------------- listen
NewUnitInvokesUnparsed(f) == [frame |-> f, pc |-> "inHandler", calls |-> 1, result |-> "none",
                              behind |-> Cardinality(BlockedUnits)]

\* A dispatch goroutine: its frame, where it is, how often it has called a
\* callback, what the callback returned ("none" | "nil" | "error"), and how
\* many dispatch goroutines were blocked when listen took its frame.
NewUnit(f) == [frame |-> f, pc |-> "parse", calls |-> 0, result |-> "none",
               behind |-> Cardinality(BlockedUnits)]

SpawnWaitsForUnit == {i \in 1..Len(units) : units[i].pc # "done"}

\* `go bot.handleEvent(event)`: the dispatch goroutines listen has to wait for
\* before its next Receive. The go statement returns at once: none.
SpawnWaits == {}

\* listen, one iteration whose Receive succeeded: spawn handleEvent for the frame.
Receive(f) ==
    /\ lpc = "recv"
    /\ ~Crashed
    /\ wsOpen
    /\ SpawnWaits = {}
    /\ Len(units) < MaxFrames
    /\ EnvOps < MaxEnv
    /\ units' = Append(units, NewUnit(f))
    /\ UNCHANGED <<phase, handshake, dialEnv, startErr, dialCalls, handlers, bot, wsOpen, closeCalls,
                   doneCount, cbErrCount, lpc, hpc, dpc, dret, spc, scopy, sargs, sret, sent, pings, lerr, dws, sws, crashed>>

\* websocket.JSON.Receive into a json.RawMessage, when no frame can be decoded:
\* the error it returns. cause "io": the peer or a local Close ended the
\* connection; cause "json": the peer sent a frame that is not valid JSON
\* (json.Unmarshal checks the syntax before it fills the RawMessage).
jsonReceive(cause) == cause

\* listen, the iteration whose Receive returned an error: log it, break out
\* of the loop, towards bot.Disconnect().
ReadError(cause) ==
    /\ lpc = "recv"
    /\ ~Crashed
    /\ SpawnWaits = {}
    /\ cause = "json" => (wsOpen /\ EnvOps < MaxEnv)
    /\ lerr' = jsonReceive(cause)
    /\ lpc' = IF lerr' # "nil" THEN "disconnect" ELSE "recv"
    /\ UNCHANGED <<phase, handshake, dialEnv, startErr, dialCalls, handlers, bot, wsOpen, closeCalls,
                   doneCount, cbErrCount, hpc, dpc, dret, units, spc, scopy, sargs, sret, sent,
                   pings, dws, sws, crashed>>

\* ---------------------------------------------------------------- handleEvent
pongInvokeKeepsCounter(b, f) == b

\* pongMessage.invoke on the shared struct b: bot.lastPong = event.ReplyTo.
pongInvoke(b, f) == [b EXCEPT !.lastPong = f.reply_to]

OnHandlerErrorDrop == "done"

\* handleEvent after invoke returned a non-nil error: bot.CallbackErrors <- err.
OnHandlerError == "postErr"

typeOnlyEventDefaultsToHello(f) == IF f.tag = "" THEN "hello" ELSE f.tag

\* The first-pass parse of handleEvent: typeOnlyEvent.Type of frame f, "" when
\* the frame has no type field or one that is not a string.
typeOnlyEvent(f) == f.tag

\* handleEvent up to the call of the user's callback (or to its return when no
\* callback is called): first-pass parse, makeEventByType, second parse, invoke.
HandleEvent(i) ==
    /\ i \in 1..Len(units)
    /\ ~Crashed
    /\ units[i].pc = "parse"
    /\ LET f == units[i].frame
           e == makeEventByType(typeOnlyEvent(f)) IN
       IF ~e.exists
       THEN /\ units' = [units EXCEPT ![i].pc = "done"]
            /\ UNCHANGED bot
       ELSE IF e.event = "pongMessage"
       THEN /\ bot' = pongInvoke(bot, f)
            /\ units' = [units EXCEPT ![i].pc = "done"]
       ELSE IF (IF e.event = "MessageIn" THEN MessageInCalls(f) ELSE PlainCalls(e.event))
       THEN /\ units' = [units EXCEPT ![i].pc = "inHandler", ![i].calls = @ + 1]
            /\ UNCHANGED bot
       ELSE /\ units' = [units EXCEPT ![i].pc = "done"]
            /\ UNCHANGED bot
    /\ UNCHANGED <<phase, handshake, dialEnv, startErr, dialCalls, handlers, wsOpen, closeCalls, doneCount,
                   cbErrCount, lpc, hpc, dpc, dret, spc, scopy, sargs, sret, sent, pings, lerr, dws, sws, crashed>>

\* The user's callback returns (failed: it returned a non-nil error); handleEvent
\* then either returns or blocks on the unbuffered CallbackErrors channel.
HandlerReturn(i, failed) ==
    /\ i \in 1..Len(units)
    /\ ~Crashed
    /\ units[i].pc = "inHandler"
    /\ units' = [units EXCEPT ![i].pc = IF failed THEN OnHandlerError ELSE "done",
                              ![i].result = IF failed THEN "error" ELSE "nil"]
    /\ UNCHANGED <<phase, handshake, dialEnv, startErr, dialCalls, handlers, bot, wsOpen, closeCalls,
                   doneCount, cbErrCount, lpc, hpc, dpc, dret, spc, scopy, sargs, sret, sent, pings, lerr, dws, sws, crashed>>

\* The application receives from bot.CallbackErrors: the send in handleEvent
\* of unit i completes.
RecvCallbackError(i) ==
    /\ i \in 1..Len(units)
    /\ ~Crashed
    /\ units[i].pc = "postErr"
    /\ units' = [units EXCEPT ![i].pc = "done"]
    /\ cbErrCount' = cbErrCount + 1
    /\ UNCHANGED <<phase, handshake, dialEnv, startErr, dialCalls, handlers, bot, wsOpen, closeCalls,
                   doneCount, lpc, hpc, dpc, dret, spc, scopy, sargs, sret, sent, pings, lerr, dws, sws, crashed>>

\* ---------------------------------------------------------------- sendPings
\* What orders the accesses of sendPings and of pongMessage.invoke to lastPing
\* and lastPong ("none" | "atomic" | "mutex"): both use plain field accesses.
counterSync == "none"

pingMessageBeforeIncrement(b) == [id |-> b.lastPing - 1, type |-> "ping"]

\* The pingMessage sendPings builds from the struct b after its increment.
pingMessage(b) == [id |-> b.lastPing, type |-> "ping"]

\* One iteration of sendPings: either the threshold test sends it to
\* bot.Disconnect(), or it issues the next ping and sleeps a minute. The result
\* of websocket.JSON.Send is discarded; `open` records whether the connection
\* was still open when the ping was passed to it.
PingTick ==
    /\ hpc = "tick"
    /\ ~Crashed
    /\ IF bot.lastPing - bot.lastPong > PingThreshold
       THEN /\ hpc' = "disconnect"
            /\ UNCHANGED <<bot, pings>>
       ELSE /\ bot.lastPing < MaxPing
            /\ bot' = [bot EXCEPT !.lastPing = @ + 1]
            /\ pings' = Append(pings, [frame |-> pingMessage(bot'), open |-> wsOpen])
            /\ UNCHANGED hpc
    /\ UNCHANGED <<phase, handshake, dialEnv, startErr, dialCalls, handlers, wsOpen, closeCalls, doneCount,
                   cbErrCount, lpc, dpc, dret, units, spc, scopy, sargs, sret, sent, lerr, dws, sws, crashed>>

\* ---------------------------------------------------------------- Disconnect
\* A Disconnect call c may begin: listen and sendPings call it when they leave
\* their loops, the application may call it on a connected session.
MayCall(c) ==
    CASE c = ListenCaller -> lpc = "disconnect"
      [] c = PingCaller   -> hpc = "disconnect"
      [] OTHER            -> /\ AppMayCall
                             /\ EnvOps < MaxEnv
                             /\ \A d \in ExtCallers : d < c => dpc[d] # "idle"

DisconnectStoreShared(b) == [b EXCEPT !.disconnected = TRUE]

\* `bot.disconnected = true` inside Disconnect, as seen by the shared struct b.
\* The receiver is the value type SlackBot: the assignment goes to the call's
\* private copy and the shared struct keeps its value.
DisconnectStore(b) == b

DisconnectClosesFirst == "close"

\* The first statement of Disconnect's guarded branch: the send on the
\* unbuffered Done channel ("send"); bot.ws.Close() ("close") comes after it.
DisconnectFirst == "send"

\* Disconnect is entered: the receiver is copied and its flag tested.
DisconnectCall(c) ==
    /\ dpc[c] = "idle"
    /\ ~Crashed
    /\ MayCall(c)
    /\ dws' = [dws EXCEPT ![c] = wsHandle]
    /\ IF ~bot.disconnected
       THEN /\ dpc' = [dpc EXCEPT ![c] = DisconnectFirst]
            /\ UNCHANGED dret
       ELSE /\ dpc' = [dpc EXCEPT ![c] = "ret"]
            /\ dret' = [dret EXCEPT ![c] = "already"]
    /\ UNCHANGED <<phase, handshake, dialEnv, startErr, dialCalls, handlers, bot, wsOpen, closeCalls,
                   doneCount, cbErrCount, lpc, hpc, units, spc, scopy, sargs, sret, sent, pings, lerr, sws, crashed>>

\* The application receives from bot.Done: the send `bot.Done <- true` of
\* call c completes.
RecvDone(c) ==
    /\ dpc[c] = "send"
    /\ ~Crashed
    /\ dpc' = [dpc EXCEPT ![c] = "close"]
    /\ doneCount' = doneCount + 1
    /\ UNCHANGED <<phase, handshake, dialEnv, startErr, dialCalls, handlers, bot, wsOpen, closeCalls,
                   cbErrCount, lpc, hpc, dret, units, spc, scopy, sargs, sret, sent, pings, lerr, dws, sws, crashed>>

\* The rest of Disconnect: set the flag, close the connection, return.
\* bot.ws.Close() on a nil *websocket.Conn dereferences nil and panics.
DisconnectClose(c) ==
    /\ dpc[c] = "close"
    /\ ~Crashed
    /\ bot' = DisconnectStore(bot)
    /\ IF dws[c] = "nil"
       THEN /\ dpc' = [dpc EXCEPT ![c] = "panic"]
            /\ crashed' = TRUE
            /\ UNCHANGED <<closeCalls, wsOpen, dret>>
       ELSE /\ closeCalls' = closeCalls + 1
            /\ UNCHANGED crashed
            /\ wsOpen' = FALSE
            /\ dpc' = [dpc EXCEPT ![c] = "ret"]
            /\ dret' = [dret EXCEPT ![c] = IF wsOpen THEN "nil" ELSE "closeErr"]
    /\ UNCHANGED <<phase, handshake, dialEnv, startErr, dialCalls, handlers, doneCount, cbErrCount, lpc,
                   hpc, units, spc, scopy, sargs, sret, sent, pings, lerr, dws, sws>>

\* ---------------------------------------------------------------- SendMessage
SendStoreShared(b, n) == [b EXCEPT !.messageID = n]

\* atomic.AddInt32(&bot.messageID, 1) as seen by the shared struct b, n being
\* the incremented value. The receiver is the value type SlackBot: the counter
\* incremented is the one of the call's private copy.
SendStore(b, n) == b

\* SendMessage is entered with arguments a: the receiver is copied and the
\* copy's counter incremented.
SendCall(s, a) ==
    /\ AppMayCall
    /\ ~Crashed
    /\ spc[s] = "idle"
    /\ EnvOps < MaxEnv
    /\ \A t \in Senders : t < s => spc[t] # "idle"
    /\ scopy' = [scopy EXCEPT ![s] = bot.messageID + 1]
    /\ sargs' = [sargs EXCEPT ![s] = a]
    /\ bot' = SendStore(bot, bot.messageID + 1)
    /\ spc' = [spc EXCEPT ![s] = "added"]
    /\ sws' = [sws EXCEPT ![s] = wsHandle]
    /\ UNCHANGED <<phase, handshake, dialEnv, startErr, dialCalls, handlers, wsOpen, closeCalls, doneCount,
                   cbErrCount, lpc, hpc, dpc, dret, units, sret, sent, pings, lerr, dws, crashed>>

messageOutSwapsFields(s) ==
    [id |-> scopy[s], type |-> "message", channel |-> sargs[s].message,
     text |-> sargs[s].channel, by |-> s]

\* The messageOut value call s builds; `by` records the call that wrote it.
messageOut(s) ==
    [id |-> scopy[s], type |-> "message", channel |-> sargs[s].channel,
     text |-> sargs[s].message, by |-> s]

\* The rest of SendMessage: build messageOut with the copy's id, write it and
\* return what websocket.JSON.Send returns. The write fails on a connection
\* that Close has closed, and may fail (peerOK false) when the peer is gone;
\* on a nil *websocket.Conn, Send dereferences nil and panics.
SendWrite(s, peerOK) ==
    /\ spc[s] = "added"
    /\ ~Crashed
    /\ IF sws[s] = "nil"
       THEN /\ spc' = [spc EXCEPT ![s] = "panic"]
            /\ crashed' = TRUE
            /\ UNCHANGED <<sent, sret>>
       ELSE /\ spc' = [spc EXCEPT ![s] = "ret"]
            /\ UNCHANGED crashed
            /\ sent' = IF wsOpen /\ peerOK THEN Append(sent, messageOut(s)) ELSE sent
            /\ sret' = [sret EXCEPT ![s] = IF wsOpen /\ peerOK THEN "nil" ELSE "error"]
    /\ UNCHANGED <<phase, handshake, dialEnv, startErr, dialCalls, handlers, bot, wsOpen, closeCalls,
                   doneCount, cbErrCount, lpc, hpc, dpc, dret, units, scopy, sargs, pings, lerr, dws, sws>>

\* ---------------------------------------------------------------- specification
Next ==
    \/ \E r \in Responses, d \in Dials : Start(r, d)
    \/ \E f \in Frames : Receive(f)
    \/ \E cause \in {"io", "json"} : ReadError(cause)
    \/ \E i \in 1..MaxFrames : HandleEvent(i)
    \/ \E i \in 1..MaxFrames, failed \in BOOLEAN : HandlerReturn(i, failed)
    \/ \E i \in 1..MaxFrames : RecvCallbackError(i)
    \/ PingTick
    \/ \E c \in Callers : DisconnectCall(c)
    \/ \E c \in Callers : RecvDone(c)
    \/ \E c \in Callers : DisconnectClose(c)
    \/ \E s \in Senders, a \in Messages : SendCall(s, a)
    \/ \E s \in Senders, peerOK \in BOOLEAN : SendWrite(s, peerOK)

Spec == Init /\ [][Next]_vars

\* ================================================================ claims
\* The session state that termination touches.
session == <<bot.disconnected, wsOpen, closeCalls, doneCount, lpc, hpc, dpc, dret>>

Returned(c) == dpc[c] = "ret"

\* C1: whatever set of triggers call Disconnect on a connected session (external
\* calls, listen's read-failure path, the heartbeat timeout), the connection is
\* closed at most once, Done receives at most one entry, and at most one call
\* returns something other than the already-disconnected error.
C1_DisconnectOnce ==
    /\ closeCalls <= 1
    /\ doneCount <= 1
    /\ Cardinality({c \in Callers : Returned(c) /\ dret[c] # "already"}) <= 1

\* C2: the ids written in outbound message frames are pairwise distinct.
C2_DistinctIds ==
    \A i, j \in 1..Len(sent) : i # j => sent[i].id # sent[j].id

\* C3: once the heartbeat loop has gone through Disconnect on a timeout, the
\* session is Disconnected (flag set), and the transition has happened exactly
\* once: one close, one Done entry.
C3_HeartbeatOnce ==
    Returned(PingCaller) =>
        /\ bot.disconnected
        /\ closeCalls = 1
        /\ doneCount = 1

\* C4: once listen has gone through Disconnect after a read error, the session
\* is Disconnected, and in every later state the terminal transition has been
\* performed exactly once: one close, one Done entry.
C4_ReadErrorOnce ==
    Returned(ListenCaller) =>
        /\ bot.disconnected
        /\ closeCalls = 1
        /\ doneCount = 1

\* C5: the session's disconnected flag is true exactly when a Disconnect has
\* closed the connection.
C5_FlagIffClosed ==
    bot.disconnected <=> (closeCalls > 0)

\* C6: a callback's error is posted to CallbackErrors (the dispatch goroutine
\* goes on to the channel send, and every error whose goroutine has finished
\* has been received exactly once), and neither the callback's return nor the
\* hand-over of its error changes the session: flag, connection, loops, Done.
C6_ErrorsPosted ==
    /\ \A i \in 1..Len(units) :
          units[i].result = "error" => units[i].pc \in {"postErr", "done"}
    /\ cbErrCount = Cardinality({i \in 1..Len(units) :
                                   units[i].result = "error" /\ units[i].pc = "done"})

C6_SessionKept ==
    \A i \in 1..Len(units) :
        (\/ units[i].result # "error" /\ units'[i].result = "error"
         \/ units[i].pc = "postErr" /\ units'[i].pc # "postErr")
        => UNCHANGED session

C6_HandlerErrorNotFatal == []C6_ErrorsPosted /\ [][C6_SessionKept]_vars

C6_Witness ==
    /\ \E i \in 1..Len(units) : units[i].result = "error" /\ units[i].pc = "done"
    /\ cbErrCount = 1
    /\ wsOpen /\ ~bot.disconnected /\ lpc = "recv" /\ hpc = "tick" /\ doneCount = 0

\* C7: a frame whose type tag is none of dnd_updated_user, hello, message, pong,
\* presence_change (an empty tag included) invokes no callback, posts nothing
\* to CallbackErrors, and its dispatch changes nothing but its own completion.
C7_Unregistered(u) ==
    u.frame.tag \notin {"dnd_updated_user", "hello", "message", "pong", "presence_change"}

C7_NoCall ==
    \A i \in 1..Len(units) :
        C7_Unregistered(units[i]) =>
            /\ units[i].calls = 0
            /\ units[i].result = "none"
            /\ units[i].pc \in {"parse", "done"}

C7_NoEffect ==
    \A i \in 1..Len(units) :
        (C7_Unregistered(units[i]) /\ units'[i] # units[i]) =>
            /\ units' = [units EXCEPT ![i].pc = "done"]
            /\ UNCHANGED <<phase, handshake, dialEnv, startErr, dialCalls, handlers, bot, wsOpen,
                           closeCalls, doneCount, cbErrCount, lpc, hpc, dpc, dret, spc,
                           scopy, sargs, sret, sent, pings, lerr, dws, sws, crashed>>

C7_UnregisteredIsNoOp == []C7_NoCall /\ [][C7_NoEffect]_vars

C7_Witness ==
    /\ Len(units) = 2
    /\ units[1].frame.tag = "" /\ units[1].pc = "done"
    /\ units[2].frame.tag = "user_typing" /\ units[2].pc = "done"
    /\ handlers = Slots

\* C8: a message frame with hidden = true never has OnMessage called for it and
\* never posts to CallbackErrors; a message frame with hidden = false and
\* OnMessage set has it called exactly once.
C8_HiddenNeverInvokes ==
    \A i \in 1..Len(units) :
        LET u == units[i] IN
        /\ (u.frame.tag = "message" /\ u.frame.hidden) =>
               /\ u.calls = 0
               /\ u.result = "none"
               /\ u.pc \in {"parse", "done"}
        /\ (u.frame.tag = "message" /\ ~u.frame.hidden /\ "OnMessage" \in handlers
              /\ u.pc # "parse") => u.calls = 1

C8_Witness ==
    /\ Len(units) = 2
    /\ "OnMessage" \in handlers
    /\ units[1].frame.tag = "message" /\ units[1].frame.hidden /\ units[1].pc = "done"
    /\ units[2].frame.tag = "message" /\ ~units[2].frame.hidden /\ units[2].calls = 1
    /\ units[2].pc = "done"

\* C9: with any number of dispatch goroutines blocked (inside a callback, or on
\* the send to CallbackErrors), listen, when it is in its loop on an open
\* connection and the peer has a frame to deliver, can take that frame.
C9_ReceptionNeverStalls ==
    (lpc = "recv" /\ wsOpen /\ Len(units) < MaxFrames /\ EnvOps < MaxEnv)
        => ENABLED (\E f \in Frames : Receive(f))

C9_Witness ==
    /\ Len(units) = 2
    /\ units[1].pc = "postErr"
    /\ units[2].behind = 1

\* C10: when the handshake fails (request error, non-200 status, unreadable or
\* unparsable body, ok = false) Start returns an error, which carries the
\* server's error string when ok = false; no dial is attempted, neither loop
\* is started, and the session is not connected.
C10_HandshakeFailed ==
    \/ ~handshake.reqOK
    \/ handshake.status # 200
    \/ ~handshake.readOK
    \/ ~handshake.body.valid
    \/ ~handshake.body.ok

C10_FailedHandshakeStops ==
    (phase # "new" /\ C10_HandshakeFailed) =>
        /\ startErr # NoError
        /\ (handshake.reqOK /\ handshake.status = 200 /\ handshake.readOK
              /\ handshake.body.valid)
             => (startErr.kind = "slack" /\ startErr.text = handshake.body.error)
        /\ dialCalls = 0
        /\ lpc = "off" /\ hpc = "off" /\ ~wsOpen
        /\ phase # "connected"

C10_Witness ==
    /\ phase = "handshake_failed"
    /\ handshake.body.valid /\ ~handshake.body.ok
    /\ startErr = [kind |-> "slack", text |-> "invalid_auth"]

\* C11: the dispatch of a pong frame with reply_to = n sets lastPong to n, and
\* a heartbeat tick that finds the counter at the last ping issued (n acked,
\* no further ping issued) does not disconnect but issues ping n + 1.
C11_PongStep(i) ==
    /\ i \in 1..Len(units)
    /\ units[i].frame.tag = "pong"
    /\ units[i].pc = "parse"
    /\ units'[i].pc # "parse"

C11_TickStep == hpc = "tick" /\ (hpc' # hpc \/ bot'.lastPing # bot.lastPing)

C11_Step ==
    /\ \A i \in 1..Len(units) :
          C11_PongStep(i) => bot'.lastPong = units[i].frame.reply_to
    /\ (C11_TickStep /\ bot.lastPing >= 1 /\ bot.lastPong = bot.lastPing) =>
          (hpc' = "tick" /\ bot'.lastPing = bot.lastPing + 1)

C11_PongPreventsTimeout == [][C11_Step]_vars

\* Ping 4 can only have been issued by a tick that read lastPong >= 1, and the
\* only pong dispatched is the one for ping 3: it was dispatched while ping 3
\* was the last ping, and the next tick issued ping 4.
C11_Witness ==
    /\ Len(units) = 1
    /\ units[1].frame.tag = "pong" /\ units[1].frame.reply_to = 3
    /\ units[1].pc = "done"
    /\ bot.lastPong = 3 /\ bot.lastPing = 4
    /\ hpc = "tick"

\* C12: the first frame written on a session has id 1; every frame written has
\* type "message" and the channel and text its SendMessage call was given; a
\* SendMessage call whose write succeeded has written exactly one frame, and
\* no call has a frame before it returns or after a failed write.
C12_FramesOf(s) == {k \in 1..Len(sent) : sent[k].by = s}

C12_SendWritesItsFrame ==
    /\ Len(sent) >= 1 => sent[1].id = 1
    /\ \A k \in 1..Len(sent) :
          /\ sent[k].type = "message"
          /\ sent[k].channel = sargs[sent[k].by].channel
          /\ sent[k].text = sargs[sent[k].by].message
          /\ sargs[sent[k].by] \in Messages
    /\ \A s \in Senders :
          Cardinality(C12_FramesOf(s)) =
              IF spc[s] = "ret" /\ sret[s] = "nil" THEN 1 ELSE 0

C12_Witness ==
    /\ Len(sent) = 2
    /\ sent[1] = [id |-> 1, type |-> "message", channel |-> "C1", text |-> "hi", by |-> 1]
    /\ sent[2].channel = "C2" /\ sent[2].text = "yo"

\* C13: a SendMessage whose write failed has returned an error and has consumed
\* an identifier: the session's messageID is at least the id the call took.
C13_FailedSendConsumesId ==
    \A s \in Senders :
        (spc[s] = "ret" /\ sret[s] = "error") => bot.messageID >= scopy[s]

\* C14: a heartbeat tick does exactly one of two things: with more than two
\* pings unacknowledged it goes to Disconnect and sends nothing; otherwise it
\* increments the ping id by one and sends one ping carrying the new id. The
\* ping ids sent are 1, 2, 3, ... without repeats or gaps, and a tick is never
\* held up waiting for an acknowledgement.
C14_Gap == bot.lastPing - bot.lastPong

C14_TickStep == hpc = "tick" /\ <<hpc, bot.lastPing, pings>>' # <<hpc, bot.lastPing, pings>>

C14_OneOfTwo ==
    C14_TickStep =>
        IF C14_Gap > 2
        THEN hpc' = "disconnect" /\ pings' = pings /\ bot' = bot
        ELSE /\ hpc' = "tick"
             /\ bot'.lastPing = bot.lastPing + 1
             /\ pings' = Append(pings, [frame |-> [id |-> bot.lastPing + 1, type |-> "ping"],
                                        open |-> wsOpen])

C14_Consecutive ==
    /\ Len(pings) = bot.lastPing
    /\ \A k \in 1..Len(pings) : pings[k].frame.id = k
    /\ (hpc = "tick" /\ (bot.lastPing < MaxPing \/ C14_Gap > 2)) => ENABLED PingTick

C14_TickSendsNextPing == []C14_Consecutive /\ [][C14_OneOfTwo]_vars

C14_Witness ==
    /\ hpc = "disconnect"
    /\ Len(pings) = 3 /\ pings[3].frame.id = 3
    /\ bot.lastPong = 0

\* C15: once Disconnect has closed the connection, sendPings passes no further
\* ping to the closed connection (and both loops leave their loop).
C15_NoPingAfterClose ==
    \A k \in 1..Len(pings) : pings[k].open

\* C16 (as stated): a malformed inbound frame, one that is not valid JSON
\* included, is dropped: after it the receive loop is still receiving and
\* nothing has been posted to Done.
C16_MalformedDropped ==
    lerr = "json" => (lpc = "recv" /\ doneCount = 0 /\ wsOpen)

C16_Tagless(u) == u.frame.tag = ""

C16_NoCall ==
    \A i \in 1..Len(units) :
        C16_Tagless(units[i]) =>
            /\ units[i].calls = 0
            /\ units[i].result = "none"
            /\ units[i].pc \in {"parse", "done"}

C16_ReceiveStep ==
    (Len(units') = Len(units) + 1 /\ C16_Tagless(units'[Len(units')])) =>
        /\ lpc = "recv" /\ lpc' = "recv" /\ lerr' = lerr
        /\ UNCHANGED <<phase, bot, wsOpen, closeCalls, doneCount, cbErrCount, dpc, dret>>

C16_DispatchStep ==
    \A i \in 1..Len(units) :
        (C16_Tagless(units[i]) /\ units'[i] # units[i]) =>
            /\ units'[i].pc = "done"
            /\ UNCHANGED <<phase, bot, wsOpen, closeCalls, doneCount, cbErrCount, lpc, lerr,
                           dpc, dret>>

\* C16 (amended): a frame that is valid JSON but has no usable type tag is
\* dropped: receiving it leaves listen in its loop, its dispatch calls no
\* handler, and neither step changes the session or posts to Done or
\* CallbackErrors. (A frame that is not valid JSON makes Receive return an
\* error, and listen leaves its loop for Disconnect.)
C16_TaglessDropped == []C16_NoCall /\ [][C16_ReceiveStep /\ C16_DispatchStep]_vars

C16_Witness ==
    /\ Len(units) = 2
    /\ units[1].frame.tag = "" /\ units[1].pc = "done"
    /\ units[2].frame.tag = "message" /\ units[2].calls = 1
    /\ handlers = Slots
    /\ lpc = "recv" /\ wsOpen /\ doneCount = 0 /\ cbErrCount = 0

\* C17: every failure mode of the dial (no hostname in the session URL, failed
\* resolution, failed config construction, failed connect, failed certificate
\* check) makes Start return an error, with one dial attempt, no loop started
\* and the session not connected.
C17_DialFailureReturnsError ==
    (phase \notin {"new", "handshake_failed"}
       /\ ~(dialEnv.hasHost /\ dialEnv.resolveOK /\ dialEnv.configOK
              /\ dialEnv.connectOK /\ dialEnv.certOK)) =>
        /\ phase = "dial_failed"
        /\ startErr # NoError
        /\ dialCalls = 1
        /\ lpc = "off" /\ hpc = "off" /\ ~wsOpen

C18_NilSlot(u) ==
    /\ u.frame.tag \in {"hello", "message", "dnd_updated_user", "presence_change"}
    /\ SlotOf(eventTypeByEvent[u.frame.tag]) \notin handlers

C18_NothingInvoked ==
    \A i \in 1..Len(units) :
        C18_NilSlot(units[i]) =>
            /\ units[i].calls = 0
            /\ units[i].result = "none"
            /\ units[i].pc \in {"parse", "done"}

C18_NothingChanged ==
    \A i \in 1..Len(units) :
        (C18_NilSlot(units[i]) /\ units'[i] # units[i]) =>
            /\ units' = [units EXCEPT ![i].pc = "done"]
            /\ UNCHANGED <<bot, wsOpen, closeCalls, doneCount, cbErrCount, lpc, lerr, hpc, dpc,
                           dret, handlers, sent, pings>>

\* C18: the dispatch of a frame of a registered variant (hello, message,
\* dnd_updated_user, presence_change) whose handler slot is nil calls nothing,
\* posts nothing to CallbackErrors and changes no session state.
C18_NilHandlerIsNoOp == []C18_NothingInvoked /\ [][C18_NothingChanged]_vars

C18_Witness ==
    /\ handlers = {"OnMessage"}
    /\ Len(units) = 2
    /\ units[1].frame.tag = "hello" /\ units[1].pc = "done"
    /\ units[2].frame.tag = "message" /\ ~units[2].frame.hidden /\ units[2].calls = 1
    /\ cbErrCount = 0

\* The dispatch goroutines about to execute bot.lastPong = event.ReplyTo.
C19_PongWriters ==
    {i \in 1..Len(units) :
        /\ units[i].pc = "parse"
        /\ makeEventByType(typeOnlyEvent(units[i].frame)).event = "pongMessage"}

\* C19: the heartbeat counters are free of data races: sendPings' accesses of
\* lastPing/lastPong and a pong dispatch's write of lastPong, or the writes of
\* two pong dispatches, are never enabled together unless an atomic operation
\* or a lock orders them.
C19_NoDataRace ==
    counterSync = "none" =>
        /\ Cardinality(C19_PongWriters) <= 1
        /\ C19_PongWriters # {} => hpc # "tick"

C20_WireOrder ==
    /\ Len(units') \in {Len(units), Len(units) + 1}
    /\ \A i \in 1..Len(units) : units'[i].frame = units[i].frame

C20_ParseFirst ==
    \A i \in 1..Len(units') :
        LET before == IF i <= Len(units) THEN units[i].calls ELSE 0 IN
        units'[i].calls > before =>
            /\ i <= Len(units)
            /\ units[i].pc = "parse"
            /\ units'[i].pc = "inHandler"

\* C20: frames are taken from the connection in wire order (a frame received
\* later is placed after every frame received before, and none is moved), and
\* within one frame the handler is invoked only by the step that parsed it;
\* across frames the handlers are not ordered (the witness: the handler of the
\* second frame has completed while the first frame is not yet parsed).
C20_OrderWithinNotAcross == [][C20_WireOrder /\ C20_ParseFirst]_vars

C20_Witness ==
    /\ Len(units) = 2
    /\ units[1].frame.tag = "hello" /\ "OnHello" \in handlers
    /\ units[1].pc = "parse" /\ units[1].calls = 0
    /\ units[2].frame.tag = "message" /\ units[2].calls = 1
    /\ units[2].pc = "done" /\ units[2].result = "nil"

C21_ClosedAfterReceived ==
    /\ closeCalls <= doneCount
    /\ \A c \in Callers : dpc[c] = "send" => dret[c] = "none"
    /\ (phase = "connected" /\ ~wsOpen) => doneCount >= 1

C21_SendStep ==
    \A c \in Callers :
        dpc[c] = "send" =>
            \/ dpc'[c] = "send" /\ dret'[c] = dret[c]
            \/ dpc'[c] = "close" /\ doneCount' = doneCount + 1
                 /\ UNCHANGED <<wsOpen, closeCalls>>

C21_CloseStep ==
    (closeCalls' # closeCalls \/ (wsOpen /\ ~wsOpen')) =>
        \E c \in Callers : dpc[c] = "close" /\ dpc'[c] = "ret"

\* C21: within Disconnect the Done entry is handed over before the connection
\* is closed: every close follows the application's receive of that call's
\* entry, and a call whose entry has not been received stays at the send,
\* without closing and without returning.
C21_DoneBeforeClose == []C21_ClosedAfterReceived /\ [][C21_SendStep /\ C21_CloseStep]_vars

C21_Witness ==
    /\ dpc[1] = "ret" /\ dret[1] = "nil"
    /\ doneCount = 1 /\ closeCalls = 1
    /\ dpc[ListenCaller] = "send" /\ dret[ListenCaller] = "none"

\* The peer acknowledges in order: the pong frames were received with
\* non-decreasing reply_to.
C22_AcksInWireOrder ==
    \A i, j \in 1..Len(units) :
        (i < j /\ units[i].frame.tag = "pong" /\ units[j].frame.tag = "pong")
            => units[i].frame.reply_to <= units[j].frame.reply_to

\* C22: lastPong never decreases, whatever the interleaving of the dispatch
\* goroutines of the pong frames (the peer acknowledging issued pings, in order).
C22_LastPongNeverDecreases ==
    [][C22_AcksInWireOrder => bot'.lastPong >= bot.lastPong]_vars

\* The pings sendPings issues in the sessions of FairSpec.
FairMaxPing == 2

\* The session of an application that, like the README example, only starts
\* the bot and then receives from Done and CallbackErrors: it calls neither
\* Disconnect nor SendMessage itself.
ListenerNext ==
    \/ \E r \in Responses, d \in Dials : Start(r, d)
    \/ \E f \in Frames : Receive(f)
    \/ \E cause \in {"io", "json"} : ReadError(cause)
    \/ \E i \in 1..MaxFrames : HandleEvent(i)
    \/ \E i \in 1..MaxFrames, failed \in BOOLEAN : HandlerReturn(i, failed)
    \/ \E i \in 1..MaxFrames : RecvCallbackError(i)
    \/ (bot.lastPing < FairMaxPing /\ PingTick)
    \/ \E c \in Callers \ ExtCallers : DisconnectCall(c)
    \/ \E c \in Callers : RecvDone(c)
    \/ \E c \in Callers : DisconnectClose(c)

\* The application keeps receiving from CallbackErrors: a dispatch goroutine
\* waiting at its send is eventually served.
FairSpec ==
    /\ Init /\ [][ListenerNext]_vars
    /\ \A i \in 1..MaxFrames : WF_vars(RecvCallbackError(i))

C23_Delivered(i) == i <= Len(units) /\ units[i].result = "error" /\ units[i].pc = "done"

C23_ExactlyOnce ==
    /\ cbErrCount = Cardinality({i \in 1..MaxFrames : C23_Delivered(i)})
    /\ \A i \in 1..Len(units) : units[i].result = "error" => units[i].calls = 1

C23_HandOver ==
    \A i \in 1..Len(units) :
        (units[i].result = "error" /\ units'[i] # units[i]) =>
            /\ units[i].pc = "postErr" /\ units'[i].pc = "done"
            /\ cbErrCount' = cbErrCount + 1

\* C23: every error a handler returns is delivered to the application exactly
\* once: with the application receiving from CallbackErrors, each failing
\* dispatch eventually hands over its error and terminates; the errors received
\* are as many as the failed dispatches that have terminated.
C23_ErrorsDeliveredOnce ==
    /\ []C23_ExactlyOnce
    /\ [][C23_HandOver]_vars
    /\ \A i \in 1..MaxFrames :
          (i <= Len(units) /\ units[i].pc = "postErr") ~> C23_Delivered(i)

C23_Witness ==
    /\ Len(units) = 2
    /\ C23_Delivered(1) /\ C23_Delivered(2)
    /\ cbErrCount = 2

C24_Counters == <<bot.lastPing, bot.lastPong, bot.disconnected>>

C24_OtherDispatch ==
    \A i \in 1..Len(units) :
        (units[i].frame.tag # "pong" /\ units'[i] # units[i]) => UNCHANGED C24_Counters

C24_Send ==
    (spc' # spc) => UNCHANGED C24_Counters

C24_OnlyHeartbeat ==
    (bot'.lastPing # bot.lastPing) =>
        /\ hpc = "tick" /\ hpc' = "tick"
        /\ Len(pings') = Len(pings) + 1
        /\ UNCHANGED <<units, spc, dpc>>

C24_OnlyPong ==
    (bot'.lastPong # bot.lastPong) =>
        /\ \E i \in 1..Len(units) :
              /\ units[i].frame.tag = "pong"
              /\ units[i].pc = "parse" /\ units'[i].pc = "done"
              /\ bot'.lastPong = units[i].frame.reply_to
        /\ UNCHANGED <<hpc, pings, spc, dpc>>

\* C24: the dispatch of a frame other than pong, and a SendMessage call, leave
\* lastPing, lastPong and the disconnected flag unchanged; lastPing is changed
\* only by a step of sendPings and lastPong only by the dispatch of a pong.
C24_CounterFrame ==
    [][C24_OtherDispatch /\ C24_Send /\ C24_OnlyHeartbeat /\ C24_OnlyPong]_vars

C24_Witness ==
    /\ Len(units) = 1
    /\ units[1].frame.tag = "message" /\ units[1].calls = 1 /\ units[1].pc = "done"
    /\ spc[1] = "ret" /\ sret[1] = "nil"
    /\ bot.lastPing = 2 /\ bot.lastPong = 0 /\ ~bot.disconnected

C25_DisconnectReturnsError ==
    \A c \in ExtCallers :
        (dws[c] = "nil" /\ dpc[c] \in {"ret", "panic"}) =>
            /\ dpc[c] = "ret" /\ dret[c] \notin {"none", "nil"}
            /\ doneCount = 0

C25_SendReturnsError ==
    \A s \in Senders :
        (sws[s] = "nil" /\ spc[s] \in {"ret", "panic"}) =>
            /\ spc[s] = "ret" /\ sret[s] = "error"

\* C25: Disconnect and SendMessage called on a session that never reached
\* Connected (the connection handle is nil) return an error value instead of
\* faulting, and Disconnect posts nothing to Done.
C25_NilConnectionIsAnError == C25_DisconnectReturnsError /\ C25_SendReturnsError

====
